---------------------------- MODULE Spec2Model ----------------------------
(***************************************************************************)
(* Reconciliation of OCR tokens into (player name, chip count) records.    *)
(* Model of clean_ocr.py (rule-based extractor) and of the frame handlers  *)
(* of deepseek_cleaner.py and openai_cleaner.py (LLM-backed extractors).   *)
(*                                                                         *)
(* Representation:                                                         *)
(*   - a text is a sequence of one-character strings;                      *)
(*   - a dict is a function whose DOMAIN is the set of keys present;       *)
(*   - a confidence is an integer number of thousandths (0.5 = 500);       *)
(*   - coordinates are integer pixels.                                     *)
(***************************************************************************)
EXTENDS Integers, Sequences, FiniteSets, TLC

(***************************************************************************)
(* Characters and Python string primitives                                 *)
(***************************************************************************)
UpperSeq ==
    << "A", "B", "C", "D", "E", "F", "G", "H", "I", "J", "K", "L", "M",
       "N", "O", "P", "Q", "R", "S", "T", "U", "V", "W", "X", "Y", "Z" >>

LowerSeq ==
    << "a", "b", "c", "d", "e", "f", "g", "h", "i", "j", "k", "l", "m",
       "n", "o", "p", "q", "r", "s", "t", "u", "v", "w", "x", "y", "z" >>

DigitSeq == << "0", "1", "2", "3", "4", "5", "6", "7", "8", "9" >>

UpperChars == { UpperSeq[i] : i \in 1..26 }

LowerChars == { LowerSeq[i] : i \in 1..26 }

DigitChars == { DigitSeq[i] : i \in 1..10 }

\* \s of the regular expressions and the characters str.strip() removes
SpaceChars == { " ", "\t", "\n" }

\* the character class [A-Z\s\-'.]
UpperNameChars == UpperChars \cup SpaceChars \cup { "-", "'", "." }

\* the character class [A-Za-z\s\-'.]
MixedNameChars == UpperNameChars \cup LowerChars

\* the character class [\d,]
NumberChars == DigitChars \cup { "," }

\* the character class [KMB] under re.IGNORECASE
UnitChars == { "K", "M", "B", "k", "m", "b" }

DigitVal(c) == (CHOOSE i \in 1..10 : DigitSeq[i] = c) - 1

AllIn(text, cls) == \A i \in 1..Len(text) : text[i] \in cls

\* str.lower() and str.upper() on one character
lower_char(c) ==
    IF c \in UpperChars THEN LowerSeq[CHOOSE i \in 1..26 : UpperSeq[i] = c]
    ELSE c

upper_char(c) ==
    IF c \in LowerChars THEN UpperSeq[CHOOSE i \in 1..26 : LowerSeq[i] = c]
    ELSE c

lower(text) == [ i \in 1..Len(text) |-> lower_char(text[i]) ]

RECURSIVE lstrip(_)
lstrip(text) ==
    IF text # << >> /\ Head(text) \in SpaceChars THEN lstrip(Tail(text))
    ELSE text

RECURSIVE rstrip(_)
rstrip(text) ==
    IF text # << >> /\ text[Len(text)] \in SpaceChars
    THEN rstrip(SubSeq(text, 1, Len(text) - 1))
    ELSE text

strip(text) == rstrip(lstrip(text))

\* str.replace(ch, "") for a one-character ch
RECURSIVE remove_char(_, _)
remove_char(text, ch) ==
    IF text = << >> THEN << >>
    ELSE IF Head(text) = ch THEN remove_char(Tail(text), ch)
    ELSE << Head(text) >> \o remove_char(Tail(text), ch)

\* str.isdigit()
isdigit(text) == text # << >> /\ AllIn(text, DigitChars)

\* value of a non-empty string of decimal digits
RECURSIVE digits_value(_)
digits_value(text) ==
    IF text = << >> THEN 0
    ELSE 10 * digits_value(SubSeq(text, 1, Len(text) - 1))
         + DigitVal(text[Len(text)])

RECURSIVE pow10(_)
pow10(n) == IF n = 0 THEN 1 ELSE 10 * pow10(n - 1)

(***************************************************************************)
(* Rule tables and token classification (clean_ocr.py)                     *)
(***************************************************************************)
KEYWORDS_TO_FILTER ==
    { <<"b", "l", "i", "n", "d", "s">>,
      <<"a", "n", "t", "e">>,
      <<"b", "b", " ", "a", "n", "t", "e">>,
      <<"t", "o", "t", "a", "l", " ", "p", "o", "t">>,
      <<"m", "a", "i", "n", " ", "p", "o", "t">>,
      <<"s", "i", "d", "e", " ", "p", "o", "t">>,
      <<"d", "e", "a", "l", "e", "r">>,
      <<"f", "o", "l", "d">>,
      <<"c", "h", "e", "c", "k">>,
      <<"c", "a", "l", "l">>,
      <<"r", "a", "i", "s", "e">>,
      <<"a", "l", "l", " ", "i", "n">>,
      <<"p", "o", "k", "e", "r", "g", "o">>,
      <<"b", "b">>,
      <<"s", "b">>,
      <<"p", "l", "a", "y">>,
      <<"m", "o", "r", "i", "k", "e", "y">>,
      <<"m", "o", "i", "k", "e", "y">>,
      <<"t", "i", "l">>,
      <<"r", "b">> }

\* a pattern whose character class also lets digits through
is_valid_player_name_alnum(text) ==
    /\ Len(text) >= 3
    /\ text[1] \in UpperChars \cup LowerChars
    /\ AllIn(Tail(text), MixedNameChars \cup DigitChars)
    /\ ~ isdigit(text)

\* re.match(r"^[A-Z][A-Z\s\-'.]{2,}$", text) or the mixed-case pattern,
\* each guarded by "not text.isdigit()"
is_valid_player_name(text) ==
    \/ /\ Len(text) >= 3
       /\ text[1] \in UpperChars
       /\ AllIn(Tail(text), UpperNameChars)
       /\ ~ isdigit(text)
    \/ /\ Len(text) >= 3
       /\ text[1] \in UpperChars \cup LowerChars
       /\ AllIn(Tail(text), MixedNameChars)
       /\ ~ isdigit(text)

\* the group (\d+(?:\.\d+)?)
is_decimal(num) ==
    \/ isdigit(num)
    \/ \E d \in 2..(Len(num) - 1) :
          /\ num[d] = "."
          /\ isdigit(SubSeq(num, 1, d - 1))
          /\ isdigit(SubSeq(num, d + 1, Len(num)))

\* re.match(r"^(\d+(?:\.\d+)?)\s*([KMB])$", text, re.IGNORECASE)
chip_abbrev_match(text) ==
    /\ Len(text) >= 2
    /\ text[Len(text)] \in UnitChars
    /\ is_decimal(rstrip(SubSeq(text, 1, Len(text) - 1)))

\* group(1) and group(2).upper() of a successful chip_abbrev_match
abbrev_value(text) == rstrip(SubSeq(text, 1, Len(text) - 1))

abbrev_unit(text) == upper_char(text[Len(text)])

is_numeric_or_abbreviation(text) ==
    \/ (text # << >> /\ AllIn(text, NumberChars))
    \/ chip_abbrev_match(text)

\* int(float(num) * mult) for a decimal numeral num, computed exactly;
\* the texts of the model are those on which binary floating point
\* gives this same integer
int_of_scaled(num, mult) ==
    IF isdigit(num) THEN digits_value(num) * mult
    ELSE LET d    == CHOOSE i \in 2..(Len(num) - 1) : num[i] = "."
             ip   == SubSeq(num, 1, d - 1)
             fp   == SubSeq(num, d + 1, Len(num))
         IN  digits_value(ip) * mult
             + (digits_value(fp) * mult) \div pow10(Len(fp))

UnitFactor(unit) ==
    CASE unit = "K" -> 1000
      [] unit = "M" -> 1000000
      [] unit = "B" -> 1000000000

\* the try block that computes chip_count: ok = FALSE stands for the
\* ValueError caught by "except (ValueError, AttributeError): continue"
chip_count_of(text) ==
    IF chip_abbrev_match(text)
    THEN [ ok |-> TRUE,
           chips |-> int_of_scaled(abbrev_value(text),
                                   UnitFactor(abbrev_unit(text))) ]
    ELSE LET digits == remove_char(remove_char(text, ","), ".")
         IN  IF isdigit(digits)
             THEN [ ok |-> TRUE, chips |-> digits_value(digits) ]
             ELSE [ ok |-> FALSE, chips |-> 0 ]


(***************************************************************************)
(* extract_players (clean_ocr.py), as operators on one frame's token list  *)
(***************************************************************************)
\* Python None in an output record
None == "None"

\* a JSON null where a string is expected, and where a list is expected
NullText == << "null" >>

NullList == << [ null |-> TRUE ] >>

\* dict.get(key, default)
get(d, key, default) == IF key \in DOMAIN d THEN d[key] ELSE default

MIN_CONFIDENCE == 500

max_x_distance == 100

max_y_distance == 80

x_weight == 1

y_weight == 2

abs(n) == IF n < 0 THEN -n ELSE n

\* the list comprehension that builds filtered_items
passes_confidence(item) == get(item, "confidence", 0) > MIN_CONFIDENCE

filtered_items_of(raw_text_items) ==
    SelectSeq(raw_text_items, passes_confidence)

\* a lookup that forgets to lower-case the text
is_filtered_keyword_cased(text) == text \in KEYWORDS_TO_FILTER

\* "text.lower() in KEYWORDS_TO_FILTER"
is_filtered_keyword(text) == lower(text) \in KEYWORDS_TO_FILTER

\* one iteration of the first pass over filtered_items: the label the
\* body gives the item and the candidate it appends, if any
classify(item) ==
    LET text       == strip(get(item, "text", << >>))
        confidence == get(item, "confidence", 0)
        x          == get(item, "x", 0)
        y          == get(item, "y", 0)
    IN  IF text = << >> THEN [ kind |-> "skip" ]
        ELSE IF is_filtered_keyword(text) THEN [ kind |-> "skip" ]
        ELSE IF is_numeric_or_abbreviation(text)
        THEN LET parsed == chip_count_of(text)
             IN  IF parsed.ok
                 THEN [ kind |-> "chip",
                        cand |-> [ text |-> text, chips |-> parsed.chips,
                                   confidence |-> confidence,
                                   y |-> y, x |-> x ] ]
                 ELSE [ kind |-> "skip" ]
        ELSE IF is_valid_player_name(text) /\ Len(text) >= 2
        THEN [ kind |-> "name",
               cand |-> [ text |-> text, confidence |-> confidence,
                          y |-> y, x |-> x ] ]
        ELSE [ kind |-> "skip" ]

\* the candidates of one kind, in token order
RECURSIVE candidates(_, _)
candidates(items, kind) ==
    IF items = << >> THEN << >>
    ELSE LET c == classify(Head(items))
         IN  (IF c.kind = kind THEN << c.cand >> ELSE << >>)
             \o candidates(Tail(items), kind)

\* list.sort(key=lambda x: x["x"]): stable, ascending x
RECURSIVE insert_by_x(_, _)
insert_by_x(sorted, item) ==
    IF sorted = << >> THEN << item >>
    ELSE IF sorted[Len(sorted)].x <= item.x THEN Append(sorted, item)
    ELSE Append(insert_by_x(SubSeq(sorted, 1, Len(sorted) - 1), item),
                sorted[Len(sorted)])

\* names left in the order of the token list
sort_by_x_input_order(items) == items

RECURSIVE sort_by_x(_)
sort_by_x(items) ==
    IF items = << >> THEN << >>
    ELSE insert_by_x(sort_by_x(SubSeq(items, 1, Len(items) - 1)),
                     items[Len(items)])

x_distance(name_item, chip_item) == abs(chip_item.x - name_item.x)

y_distance(name_item, chip_item) == abs(chip_item.y - name_item.y)

\* thresholds read as exclusive bounds
within_thresholds_exclusive(name_item, chip_item) ==
    ~ (x_distance(name_item, chip_item) >= max_x_distance
       \/ y_distance(name_item, chip_item) >= max_y_distance)

within_thresholds(name_item, chip_item) ==
    ~ (x_distance(name_item, chip_item) > max_x_distance
       \/ y_distance(name_item, chip_item) > max_y_distance)

\* a score that weighs both axes alike
score_unweighted(name_item, chip_item) ==
    x_distance(name_item, chip_item) + y_distance(name_item, chip_item)

score(name_item, chip_item) ==
    (x_weight * x_distance(name_item, chip_item))
    + (y_weight * y_distance(name_item, chip_item))

\* the inner loop "for i, chip_item in enumerate(potential_chips)" from
\* index i on; best = 0 stands for best_match = None (min_score = inf).
\* Chip indices are 1-based here, 0-based in the source.
RECURSIVE scan_chips(_, _, _, _, _)
scan_chips(name_item, chips, used, i, best) ==
    IF i > Len(chips) THEN best
    ELSE IF i \in used
    THEN scan_chips(name_item, chips, used, i + 1, best)
    ELSE IF ~ within_thresholds(name_item, chips[i])
    THEN scan_chips(name_item, chips, used, i + 1, best)
    ELSE IF best = 0 \/ score(name_item, chips[i]) < score(name_item, chips[best])
    THEN scan_chips(name_item, chips, used, i + 1, i)
    ELSE scan_chips(name_item, chips, used, i + 1, best)

\* a search that forgets to skip the chips already used
best_match_ignoring_used(name_item, chips, used) ==
    scan_chips(name_item, chips, { }, 1, 0)

best_match(name_item, chips, used) == scan_chips(name_item, chips, used, 1, 0)

\* a fusion that keeps the name's confidence
fuse_confidence_name_only(name_item, chip_item) == name_item.confidence

fuse_confidence(name_item, chip_item) ==
    (name_item.confidence + chip_item.confidence) \div 2

\* a loop body that throws the pairs away when a name finds no chip
match_name_clearing(st, names, chips, k) ==
    LET name_item == names[k]
        idx       == best_match(name_item, chips, st.used_chips)
    IN  IF idx # 0 /\ chips[idx].chips > 0
        THEN [ players |->
                 Append(st.players,
                        [ name |-> name_item.text,
                          chips |-> chips[idx].chips,
                          confidence |->
                              fuse_confidence(name_item, chips[idx]) ]),
               used_chips |-> st.used_chips \cup { idx },
               matched |-> Append(st.matched,
                                  [ name_idx |-> k, chip_idx |-> idx ]) ]
        ELSE [ players |-> << >>, used_chips |-> st.used_chips,
               matched |-> << >> ]

\* one iteration of "for name_item in potential_names" on the loop state
\* st = [players, used_chips, matched]; matched is the history of
\* (name index, chip index) behind each appended player
match_name(st, names, chips, k) ==
    LET name_item == names[k]
        idx       == best_match(name_item, chips, st.used_chips)
    IN  IF idx # 0 /\ chips[idx].chips > 0
        THEN [ players |->
                 Append(st.players,
                        [ name |-> name_item.text,
                          chips |-> chips[idx].chips,
                          confidence |->
                              fuse_confidence(name_item, chips[idx]) ]),
               used_chips |-> st.used_chips \cup { idx },
               matched |-> Append(st.matched,
                                  [ name_idx |-> k, chip_idx |-> idx ]) ]
        ELSE st

\* a return that keeps the pairs whatever chips are left over
validate_lenient(st, chips) == st.players

\* the final check of extract_players
validate(st, chips) ==
    IF Cardinality(st.used_chips) < Len(chips) THEN << >> ELSE st.players

EmptyMatch == [ players |-> << >>, used_chips |-> { }, matched |-> << >> ]

RECURSIVE match_loop(_, _, _, _)
match_loop(st, names, chips, k) ==
    IF k > Len(names) THEN st
    ELSE match_loop(match_name(st, names, chips, k), names, chips, k + 1)

\* extract_players raises instead of returning: iterating over None in
\* the list comprehension (TypeError), or None.strip() on an item that
\* passed the confidence filter (AttributeError, outside the try block)
extract_players_raises(raw_text_items) ==
    IF raw_text_items = NullList THEN TRUE
    ELSE \E i \in 1..Len(raw_text_items) :
             /\ passes_confidence(raw_text_items[i])
             /\ get(raw_text_items[i], "text", << >>) = NullText

\* extract_players as a function of the token list, when it returns
extract_players(raw_text_items) ==
    LET filtered_items == filtered_items_of(raw_text_items)
    IN  IF filtered_items = << >> THEN << >>
        ELSE LET names == sort_by_x(candidates(filtered_items, "name"))
                 chips == candidates(filtered_items, "chip")
             IN  validate(match_loop(EmptyMatch, names, chips, 1), chips)

\* a total that keeps only the last player's chips instead of adding up
sum_chips_last_only(ps) ==
    IF ps = << >> THEN 0 ELSE get(ps[Len(ps)], "chips", 0)

\* sum(player.get("chips", 0) for player in players)
RECURSIVE sum_chips(_)
sum_chips(ps) ==
    IF ps = << >> THEN 0
    ELSE get(Head(ps), "chips", 0) + sum_chips(Tail(ps))

(***************************************************************************)
(* LLM-backed frame handlers (deepseek_cleaner.py, openai_cleaner.py)      *)
(***************************************************************************)
DEEPSEEK_CONFIDENCE == 950

OPENAI_CONFIDENCE == 850

\* an except branch that loses the frame's filepath
empty_frame_record_without_path(filepath) ==
    [ filepath |-> "", players |-> << >>, total_chips |-> 0,
      expected_total |-> None, is_valid |-> None ]

\* the record both handlers return from their "except Exception" branch
empty_frame_record(filepath) ==
    [ filepath |-> filepath, players |-> << >>, total_chips |-> 0,
      expected_total |-> None, is_valid |-> None ]

\* An element of the JSON array the collaborator returned:
\*   kind = "object": a JSON object with a "name" and, per chips_kind,
\*          a numeric "chips", no "chips", or a "chips" that is a string;
\*   kind = "scalar": a JSON value that is not an object.
llm_player(e, confidence) ==
    IF e.chips_kind = "number"
    THEN [ name |-> e.name, chips |-> e.chips, confidence |-> confidence ]
    ELSE [ name |-> e.name, confidence |-> confidence ]

\* player.get("chips", 0) raises on a non-object, and sum() raises on a
\* string operand
sum_raises(array) ==
    \E i \in 1..Len(array) :
        array[i].kind = "scalar" \/ array[i].chips_kind = "string"

\* the body of the try block after the collaborator call, for a response
\*   [kind |-> "error"]      request error, bad status, missing fields,
\*                           or json.loads failure on the extracted text
\*   [kind |-> "no_array"]   no "[" ... "]" in the returned text
\*   [kind |-> "array", array |-> ...]
process_frame_with_llm(filepath, response, confidence) ==
    IF response.kind = "error" THEN empty_frame_record(filepath)
    ELSE LET array == IF response.kind = "array" THEN response.array
                      ELSE << >>
         IN  IF sum_raises(array) THEN empty_frame_record(filepath)
             ELSE LET players ==
                          [ i \in 1..Len(array) |->
                                llm_player(array[i], confidence) ]
                  IN  [ filepath |-> filepath, players |-> players,
                        total_chips |-> sum_chips(players),
                        expected_total |-> None, is_valid |-> None ]

\* the loop that builds ocr_data before the try block raises: iterating
\* over None, or None.strip() on any item
llm_handler_raises(raw_text_items) ==
    IF raw_text_items = NullList THEN TRUE
    ELSE \E i \in 1..Len(raw_text_items) :
             get(raw_text_items[i], "text", << >>) = NullText

process_frame_with_deepseek(filepath, response) ==
    process_frame_with_llm(filepath, response, DEEPSEEK_CONFIDENCE)

process_frame_with_openai(filepath, response) ==
    process_frame_with_llm(filepath, response, OPENAI_CONFIDENCE)

(***************************************************************************)
(* Inputs                                                                  *)
(***************************************************************************)
MaxTokens == 3

MaxLines == 3

Tok(text, confidence, x, y) ==
    [ text |-> text, confidence |-> confidence, x |-> x, y |-> y ]

TokNoConfidence(text, x, y) == [ text |-> text, x |-> x, y |-> y ]

NEGREANU == <<"N", "E", "G", "R", "E", "A", "N", "U">>

IVEY == <<"I", "V", "E", "Y">>

HELLMUTH == <<"H", "E", "L", "L", "M", "U", "T", "H">>

\* Tokens of a two-player layout: names on the row y = 100, chip counts
\* around them at and just beyond the distance thresholds.
TokenPool ==
    << Tok(NEGREANU, 900, 50, 100),
       Tok(IVEY, 800, 60, 100),
       Tok(<<"1", ",", "2", "0", "0", ",", "0", "0", "0">>, 850, 55, 180),
       Tok(<<"2", "M">>, 700, 150, 110),
       Tok(<<"0">>, 900, 50, 110),
       Tok(<<"1", ".", "5", "K">>, 900, 151, 100),
       Tok(<<"5", "0", "0">>, 900, 55, 181),
       Tok(HELLMUTH, 500, 40, 100),
       Tok(<<"3", ",", "0", "0", "0">>, 600, 55, 20) >>

\* a confident token whose "text" is null
NullTextToken == [ text |-> NullText, confidence |-> 900, x |-> 50, y |-> 110 ]

\* token lists without repetition, of at most MaxTokens pool tokens
PoolFrames ==
    UNION { { [ i \in 1..n |-> TokenPool[f[i]] ] :
                f \in { g \in [ 1..n -> 1..Len(TokenPool) ] :
                          \A i, j \in 1..n : g[i] = g[j] => i = j } } :
            n \in 0..MaxTokens }

ProbeTexts ==
    {
      <<"2", "M">>,
      <<"2", "m">>,
      <<"1", ".", "5", "K">>,
      <<"1", ".", "5", " ", "k">>,
      <<"1", "B">>,
      <<"0", ".", "5", "K">>,
      <<"1", ".", "2", "M">>,
      <<"0", "K">>,
      <<"2", " ", "M">>,
      <<" ", "2", "M", " ">>,
      <<"1", ",", "2", "3", "4", ",", "0", "0", "0">>,
      <<"1", "2">>,
      <<"1", ",", "5">>,
      <<"0">>,
      <<"0", "0", "0">>,
      <<",">>,
      <<"0", ",", "0">>,
      <<"a", "b", "c">>,
      <<"1", ".", "2", ".", "3">>,
      <<"1", ".", "5">>,
      <<"K">>,
      <<".", "5", "K">>,
      <<"2", "M", "M">>,
      <<"1", "2", "a">>,
      <<"b", "l", "i", "n", "d", "s">>,
      <<"B", "L", "I", "N", "D", "S">>,
      <<"A", "n", "t", "e">>,
      <<"b", "b">>,
      <<"S", "B">>,
      <<"c", "a", "l", "l">>,
      <<"F", "o", "l", "d">>,
      <<" ", "f", "o", "l", "d", " ">>,
      <<"r", "a", "i", "s", "e">>,
      <<"a", "l", "l", "-", "i", "n">>,
      <<"A", "L", "L", "-", "I", "N">>,
      <<"a", "l", "l", " ", "i", "n">>,
      <<"A", "L", "L", " ", "I", "N">>,
      <<"d", "e", "a", "l", "e", "r">>,
      <<"p", "o", "t">>,
      <<"P", "O", "T">>,
      <<"t", "o", "t", "a", "l", " ", "p", "o", "t">>,
      <<"c", "h", "e", "c", "k">>,
      <<"V", "U">>,
      <<"v", "u">>,
      <<"I", "I", "I">>,
      <<"A", "A", "A", "B">>,
      <<"S", "M", "I", "I", "I", "T", "H">>,
      <<"I", "V", "E", "Y">>,
      <<"I", "v", "e", "y">>,
      <<"O", "'", "N", "E", "I", "L">>,
      <<"A", "1">>,
      <<"#", "#", "#">>,
      <<"X">>,
      <<>>,
      <<" ", " ">>,
      <<"-", "A", "B">>,
      <<"i", "V", "E", "Y">>,
      <<"V", "A", "N", " ", "D", "A", "M">>,
      <<"A", "0", "0", "0">>,
      <<"A", "B", "#", "#", "#">>,
      <<"A", "-", "-", "-", "B">> }

\* 0 stands for a token without a "confidence" key
ProbeConfidences == { 0, 400, 500, 510, 900 }

ProbeToken(text, c) ==
    IF c = 0 THEN TokNoConfidence(text, 50, 110) ELSE Tok(text, c, 50, 110)

CompanionName == Tok(NEGREANU, 900, 50, 100)

CompanionChip ==
    Tok(<<"1", ",", "2", "0", "0", ",", "0", "0", "0">>, 850, 55, 180)

\* one token under test, alone and beside a name and a chip count
ProbeFrames ==
    UNION { { << ProbeToken(text, c) >>,
              << CompanionName, ProbeToken(text, c) >>,
              << ProbeToken(text, c), CompanionChip >>,
              << CompanionName, CompanionChip, ProbeToken(text, c) >> } :
            text \in ProbeTexts, c \in ProbeConfidences }

\* the end-to-end scenario: a chip count exactly 80 px below its name
ExampleFrame ==
    << Tok(NEGREANU, 900, 50, 10),
       Tok(<<"1", ",", "2", "0", "0", ",", "0", "0", "0">>, 850, 55, 90) >>

Frames == PoolFrames \cup ProbeFrames \cup { ExampleFrame }

\* a line of the input file: valid_json = FALSE is a line json.loads
\* rejects, otherwise data is the decoded object
JsonLine(data) == [ valid_json |-> TRUE, data |-> data ]

MalformedLine == [ valid_json |-> FALSE ]

FrameLine(frame) ==
    JsonLine([ filepath |-> "frame.png", raw_text |-> frame,
               success |-> TRUE ])

BatchLines ==
    { MalformedLine,
      JsonLine([ filepath |-> "a.png", success |-> TRUE,
                 raw_text |-> << TokenPool[1], TokenPool[3] >> ]),
      JsonLine([ filepath |-> "b.png", success |-> TRUE,
                 raw_text |-> << TokenPool[2], TokenPool[4], TokenPool[1],
                                 TokenPool[3] >> ]),
      JsonLine([ success |-> TRUE,
                 raw_text |-> << TokenPool[2], TokenPool[4] >> ]),
      JsonLine([ filepath |-> "c.png", success |-> TRUE ]),
      JsonLine([ filepath |-> "d.png", success |-> FALSE,
                 raw_text |-> << TokenPool[1], TokenPool[3] >> ]),
      JsonLine([ filepath |-> "e.png", success |-> TRUE,
                 raw_text |-> << TokenPool[1], TokenPool[3],
                                 TokenPool[4] >> ]),
      JsonLine([ filepath |-> "f.png", success |-> TRUE,
                 raw_text |-> << TokenPool[1], NullTextToken,
                                 TokenPool[3] >> ]),
      JsonLine([ filepath |-> "g.png", success |-> FALSE,
                 raw_text |-> NullList ]) }

LLMLines ==
    { MalformedLine,
      JsonLine([ filepath |-> "a.png", success |-> TRUE,
                 raw_text |-> << TokenPool[1], TokenPool[3] >> ]),
      JsonLine([ success |-> TRUE, raw_text |-> << >> ]),
      JsonLine([ filepath |-> "f.png", success |-> TRUE,
                 raw_text |-> << TokenPool[1], NullTextToken >> ]) }

FilesOf(lines) == UNION { [ 1..n -> lines ] : n \in 0..MaxLines }

\* what the collaborator can answer for one frame
LLMArrays ==
    { << >>,
      << [ kind |-> "object", name |-> NEGREANU, chips_kind |-> "number",
           chips |-> 1200000 ] >>,
      << [ kind |-> "object", name |-> NEGREANU, chips_kind |-> "number",
           chips |-> 1200000 ],
         [ kind |-> "object", name |-> IVEY, chips_kind |-> "number",
           chips |-> 2000000 ] >>,
      << [ kind |-> "object", name |-> NEGREANU, chips_kind |-> "number",
           chips |-> 1200000 ],
         [ kind |-> "object", name |-> IVEY, chips_kind |-> "absent" ] >>,
      << [ kind |-> "object", name |-> NEGREANU, chips_kind |-> "number",
           chips |-> 1200000 ],
         [ kind |-> "object", name |-> IVEY, chips_kind |-> "string" ] >>,
      << [ kind |-> "scalar" ] >> }

Responses ==
    { [ kind |-> "error" ], [ kind |-> "no_array" ] }
    \cup { [ kind |-> "array", array |-> a ] : a \in LLMArrays }

Inputs ==
    { [ extractor |-> "rule", lines |-> << FrameLine(f) >> ] : f \in Frames }
    \cup { [ extractor |-> "rule", lines |-> ls ] : ls \in FilesOf(BatchLines) }
    \cup { [ extractor |-> e, lines |-> ls ] :
             e \in { "deepseek", "openai" }, ls \in FilesOf(LLMLines) }

(***************************************************************************)
(* process_file: the state machine                                         *)
(***************************************************************************)
VARIABLES
    extractor,        \* which program runs: "rule", "deepseek" or "openai"
    input_lines,      \* the lines of the input file
    line_no,          \* number of lines the loop has taken from the file
    pc,               \* "read", "extract", "match", "return" or "call"
    filepath,         \* data.get("filepath", "") of the current line
    raw_text,         \* data.get("raw_text", []) of the current line
    potential_names,  \* extract_players: name candidates, sorted by x
    potential_chips,  \* extract_players: chip candidates, in token order
    k,                \* index of the next name of the matching loop
    players,          \* extract_players: pairs appended so far
    used_chips,       \* extract_players: indices of the chips consumed
    matched,          \* history: (name index, chip index) of each pair
    result,           \* the list extract_players returned
    last_response,    \* what the collaborator answered to the last call
    out               \* the records written to the output file

vars ==
    << extractor, input_lines, line_no, pc, filepath, raw_text,
       potential_names, potential_chips, k, players, used_chips, matched,
       result, last_response, out >>

frame_vars ==
    << potential_names, potential_chips, k, players, used_chips, matched,
       result >>

Init ==
    /\ \E inp \in Inputs :
          /\ extractor = inp.extractor
          /\ input_lines = inp.lines
    /\ line_no = 0
    /\ pc = "read"
    /\ filepath = ""
    /\ raw_text = << >>
    /\ potential_names = << >>
    /\ potential_chips = << >>
    /\ k = 1
    /\ players = << >>
    /\ used_chips = { }
    /\ matched = << >>
    /\ result = << >>
    /\ last_response = [ kind |-> "none" ]
    /\ out = << >>

\* "for line in f_in": json.loads and the two data.get calls; a line that
\* does not decode is reported and the loop goes on
ReadLine ==
    /\ pc = "read"
    /\ line_no < Len(input_lines)
    /\ line_no' = line_no + 1
    /\ LET line == input_lines[line_no + 1]
       IN  IF line.valid_json
           THEN /\ filepath' = get(line.data, "filepath", "")
                /\ raw_text' = get(line.data, "raw_text", << >>)
                /\ pc' = IF extractor = "rule" THEN "extract" ELSE "call"
           ELSE /\ pc' = "read"
                /\ UNCHANGED << filepath, raw_text >>
    /\ UNCHANGED << extractor, input_lines, last_response, out >>
    /\ UNCHANGED frame_vars

\* a first pass that keeps used_chips from the frame before
FirstPass_keeping_used_chips ==
    /\ pc = "extract"
    /\ IF extract_players_raises(raw_text)
       THEN /\ pc' = "read"
            /\ UNCHANGED frame_vars
       ELSE /\ LET filtered_items == filtered_items_of(raw_text)
               IN  IF filtered_items = << >>
                   THEN /\ result' = << >>
                        /\ pc' = "return"
                        /\ potential_names' = << >>
                        /\ potential_chips' = << >>
                   ELSE /\ potential_names' =
                               sort_by_x(candidates(filtered_items, "name"))
                        /\ potential_chips' =
                               candidates(filtered_items, "chip")
                        /\ pc' = "match"
                        /\ UNCHANGED result
            /\ k' = 1
            /\ players' = << >>
            /\ UNCHANGED used_chips
            /\ matched' = << >>
    /\ UNCHANGED << extractor, input_lines, line_no, filepath, raw_text,
                    last_response, out >>

\* extract_players up to the matching loop: confidence filter, early
\* return, first pass, sort; an exception it raises reaches the
\* "except Exception" of process_file, which prints and goes on
FirstPass ==
    /\ pc = "extract"
    /\ IF extract_players_raises(raw_text)
       THEN /\ pc' = "read"
            /\ UNCHANGED frame_vars
       ELSE /\ LET filtered_items == filtered_items_of(raw_text)
               IN  IF filtered_items = << >>
                   THEN /\ result' = << >>
                        /\ pc' = "return"
                        /\ potential_names' = << >>
                        /\ potential_chips' = << >>
                   ELSE /\ potential_names' =
                               sort_by_x(candidates(filtered_items, "name"))
                        /\ potential_chips' =
                               candidates(filtered_items, "chip")
                        /\ pc' = "match"
                        /\ UNCHANGED result
            /\ k' = 1
            /\ players' = << >>
            /\ used_chips' = { }
            /\ matched' = << >>
    /\ UNCHANGED << extractor, input_lines, line_no, filepath, raw_text,
                    last_response, out >>

\* one iteration of "for name_item in potential_names"
MatchName ==
    /\ pc = "match"
    /\ k <= Len(potential_names)
    /\ LET st == match_name([ players |-> players,
                              used_chips |-> used_chips,
                              matched |-> matched ],
                            potential_names, potential_chips, k)
       IN  /\ players' = st.players
           /\ used_chips' = st.used_chips
           /\ matched' = st.matched
    /\ k' = k + 1
    /\ UNCHANGED << extractor, input_lines, line_no, pc, filepath, raw_text,
                    potential_names, potential_chips, result,
                    last_response, out >>

\* after the loop: the unmatched-chip check and the return
Validate ==
    /\ pc = "match"
    /\ k > Len(potential_names)
    /\ result' = validate([ players |-> players,
                            used_chips |-> used_chips,
                            matched |-> matched ], potential_chips)
    /\ pc' = "return"
    /\ UNCHANGED << extractor, input_lines, line_no, filepath, raw_text,
                    potential_names, potential_chips, k, players,
                    used_chips, matched, last_response, out >>

\* back in process_file: total_chips, the output record, json.dump
WriteRecord ==
    /\ pc = "return"
    /\ out' = Append(out, [ filepath |-> filepath,
                            players |-> result,
                            total_chips |-> sum_chips(result),
                            expected_total |-> None,
                            is_valid |-> None ])
    /\ pc' = "read"
    /\ UNCHANGED << extractor, input_lines, line_no, filepath, raw_text,
                    last_response >>
    /\ UNCHANGED frame_vars

\* the LLM programs: the frame handler with whatever the collaborator
\* answers, then json.dump of the record it returns; an exception before
\* the handler's try block reaches the "except Exception" of process_file
CallLLM ==
    /\ pc = "call"
    /\ IF llm_handler_raises(raw_text)
       THEN /\ last_response' = [ kind |-> "none" ]
            /\ UNCHANGED out
       ELSE \E response \in Responses :
               /\ last_response' = response
               /\ out' = Append(out,
                     IF extractor = "deepseek"
                     THEN process_frame_with_deepseek(filepath, response)
                     ELSE process_frame_with_openai(filepath, response))
    /\ pc' = "read"
    /\ UNCHANGED << extractor, input_lines, line_no, filepath, raw_text >>
    /\ UNCHANGED frame_vars

Next ==
    \/ ReadLine
    \/ FirstPass
    \/ MatchName
    \/ Validate
    \/ WriteRecord
    \/ CallLLM

Spec == Init /\ [][Next]_vars

TypeOK ==
    /\ extractor \in { "rule", "deepseek", "openai" }
    /\ line_no \in 0..Len(input_lines)
    /\ pc \in { "read", "extract", "match", "return", "call" }
    /\ used_chips \subseteq 1..Len(potential_chips)
    /\ k \in 1..(Len(potential_names) + 1)

(***************************************************************************)
(* Properties                                                              *)
(***************************************************************************)
Range(seq) == { seq[i] : i \in 1..Len(seq) }

\* the chips of the players from position i on, a missing field counting 0
RECURSIVE ChipsFrom(_, _)
ChipsFrom(ps, i) ==
    IF i > Len(ps) THEN 0
    ELSE (IF "chips" \in DOMAIN ps[i] THEN ps[i].chips ELSE 0)
         + ChipsFrom(ps, i + 1)

\* C1: every record written to the output, by the rule-based program and
\* by both LLM programs, has total_chips equal to the sum of the chips of
\* its own players (0 when it has no players).
C1_TotalChipsIsSum ==
    \A i \in 1..Len(out) :
        /\ out[i].total_chips = ChipsFrom(out[i].players, 1)
        /\ out[i].players = << >> => out[i].total_chips = 0

\* a record with two players and a positive total has been written
C1_Witness ==
    \E i \in 1..Len(out) :
        /\ extractor = "rule"
        /\ Len(out[i].players) = 2
        /\ out[i].total_chips > out[i].players[1].chips
        /\ out[i].players[1].chips > 0

\* C2: at every step of the name loop, and when it is over, each pair
\* emitted so far consumed its own chip index: no chip index is behind two
\* pairs, and used_chips holds exactly one index per pair.
C2_InjectiveMatching ==
    pc \in { "match", "return" } =>
        /\ Len(matched) = Len(players)
        /\ Cardinality(used_chips) = Len(players)
        /\ used_chips = { matched[i].chip_idx : i \in 1..Len(matched) }
        /\ \A i, j \in 1..Len(matched) :
               matched[i].chip_idx = matched[j].chip_idx => i = j

\* two pairs are out and one of the names got a chip other than the one
\* it scores best among all chips, that one being taken already
C2_Witness ==
    /\ pc = "match"
    /\ Len(players) = 2
    /\ \E i \in 1..Len(matched) :
          LET first_choice ==
                  best_match(potential_names[matched[i].name_idx],
                             potential_chips, { })
          IN  /\ first_choice # matched[i].chip_idx
              /\ first_choice \in used_chips

\* C3: when extract_players returns with at least one chip candidate not
\* consumed by a pair, the list it returns is empty, however many pairs
\* the loop had matched.
C3_StrictValidation ==
    (/\ pc = "return"
     /\ \E i \in 1..Len(potential_chips) : i \notin used_chips)
        => result = << >>

\* one pair was matched, one chip candidate is left over, nothing returned
C3_Witness ==
    /\ pc = "return"
    /\ Len(players) = 1
    /\ Len(potential_chips) = 2
    /\ players[1].chips > 0
    /\ result = << >>

\* the stripped text of a token
TextOf(item) ==
    IF get(item, "text", << >>) = NullText THEN << >>
    ELSE strip(get(item, "text", << >>))

\* a token the classifier labels Chip whose text gives no positive value
IsZeroOrUnparsableChip(item) ==
    /\ is_numeric_or_abbreviation(TextOf(item))
    /\ \/ ~ chip_count_of(TextOf(item)).ok
       \/ chip_count_of(TextOf(item)).chips = 0

NotZeroOrUnparsableChip(item) == ~ IsZeroOrUnparsableChip(item)

\* C4: Chip-classified tokens whose text normalizes to zero or does not
\* parse are noise: the players returned for a frame are the players
\* returned for the same frame without those tokens.
C4_ZeroChipIsNoise ==
    pc = "return" =>
        result = extract_players(SelectSeq(raw_text, NotZeroOrUnparsableChip))

Txt_2M == <<"2", "M">>

Txt_1234000 == <<"1", ",", "2", "3", "4", ",", "0", "0", "0">>

Txt_1p5K == <<"1", ".", "5", "K">>

Txt_0 == <<"0">>

Txt_abc == <<"a", "b", "c">>

\* C5: "2M" gives 2000000, "1,234,000" gives 1234000, "1.5K" gives 1500,
\* and "0" and "abc" give no chip value: no chip candidate carries them.
C5_Normalization ==
    pc = "match" =>
        \A i \in 1..Len(potential_chips) :
            LET c == potential_chips[i]
            IN  /\ c.text = Txt_2M => c.chips = 2000000
                /\ c.text = Txt_1234000 => c.chips = 1234000
                /\ c.text = Txt_1p5K => c.chips = 1500
                /\ c.text \notin { Txt_0, Txt_abc }

\* the blacklist as the claim lists it
ClaimedBlacklist ==
    { <<"b", "l", "i", "n", "d", "s">>, <<"a", "n", "t", "e">>,
      <<"b", "b">>, <<"s", "b">>, <<"c", "a", "l", "l">>,
      <<"f", "o", "l", "d">>, <<"r", "a", "i", "s", "e">>,
      <<"a", "l", "l", "-", "i", "n">>,
      <<"d", "e", "a", "l", "e", "r">>, <<"p", "o", "t">> }

\* the same list with "all-in" read as "all in" and "pot" as the three
\* pot captions
AmendedBlacklist ==
    { <<"b", "l", "i", "n", "d", "s">>, <<"a", "n", "t", "e">>,
      <<"b", "b">>, <<"s", "b">>, <<"c", "a", "l", "l">>,
      <<"f", "o", "l", "d">>, <<"r", "a", "i", "s", "e">>,
      <<"a", "l", "l", " ", "i", "n">>,
      <<"d", "e", "a", "l", "e", "r">>,
      <<"t", "o", "t", "a", "l", " ", "p", "o", "t">>,
      <<"m", "a", "i", "n", " ", "p", "o", "t">>,
      <<"s", "i", "d", "e", " ", "p", "o", "t">> }

\* no candidate and no written player name is, ignoring case, in terms
NeverCandidate(terms) ==
    /\ \A i \in 1..Len(potential_names) :
           lower(potential_names[i].text) \notin terms
    /\ \A i \in 1..Len(potential_chips) :
           lower(potential_chips[i].text) \notin terms
    /\ \A i \in 1..Len(out) : \A j \in 1..Len(out[i].players) :
           extractor = "rule" => lower(out[i].players[j].name) \notin terms

\* C6 as stated: a token whose trimmed text is, ignoring case, "blinds",
\* "ante", "bb", "sb", "call", "fold", "raise", "all-in", "dealer" or
\* "pot" is never a name or chip candidate nor a player name.
C6_Original == NeverCandidate(ClaimedBlacklist)

\* C6 amended: a token whose trimmed text is, ignoring case, "blinds",
\* "ante", "bb", "sb", "call", "fold", "raise", "all in", "dealer",
\* "total pot", "main pot" or "side pot" is never a name or chip
\* candidate, at any confidence, and never a player name of the output.
C6_Amended == NeverCandidate(AmendedBlacklist)

\* a confident token with a listed term in another case stood beside a
\* chip candidate and a record with no player was written
C6_Witness ==
    /\ extractor = "rule"
    /\ Len(out) = 1
    /\ Len(potential_chips) = 1
    /\ potential_names = << >>
    /\ raw_text # NullList
    /\ \E i \in 1..Len(raw_text) :
          /\ passes_confidence(raw_text[i])
          /\ lower(TextOf(raw_text[i])) \in AmendedBlacklist
          /\ TextOf(raw_text[i]) \notin AmendedBlacklist

\* C7: a token is rejected for its confidence exactly when the confidence
\* is below 0.5 or missing: a token at 0.5 or above that the first pass
\* would label Name or Chip is among the candidates, and no token below
\* 0.5 is.
C7_ConfidenceGate ==
    pc \in { "match", "return" } =>
        \A i \in 1..Len(raw_text) :
            LET item == raw_text[i]
                c    == classify(item)
                cands == Range(potential_names) \cup Range(potential_chips)
            IN  c.kind # "skip" =>
                    IF "confidence" \in DOMAIN item /\ item.confidence >= 500
                    THEN c.cand \in cands
                    ELSE c.cand \notin cands

Letters == UpperChars \cup LowerChars

\* C8: a confident token of at least 2 characters, all of them letters,
\* that is not a listed keyword becomes a name candidate ("VU" does).
C8_TwoLetterName ==
    pc \in { "match", "return" } =>
        \A i \in 1..Len(raw_text) :
            (/\ passes_confidence(raw_text[i])
             /\ Len(TextOf(raw_text[i])) >= 2
             /\ AllIn(TextOf(raw_text[i]), Letters)
             /\ lower(TextOf(raw_text[i])) \notin KEYWORDS_TO_FILTER)
                => \E j \in 1..Len(potential_names) :
                       potential_names[j].text = TextOf(raw_text[i])

\* the characters repeated three times in a row somewhere in text
TripledChars(text) ==
    { text[i] : i \in { j \in 1..(Len(text) - 2) :
                          text[j] = text[j + 1] /\ text[j] = text[j + 2] } }

\* the names among the candidates and in the written records
NamesSeen ==
    { potential_names[i].text : i \in 1..Len(potential_names) }
    \cup UNION { { out[i].players[j].name : j \in 1..Len(out[i].players) } :
                 i \in { n \in 1..Len(out) : extractor = "rule" } }

NameAlphabet == Letters \cup SpaceChars \cup { "-", "'", "." }

LetterTriplets ==
    { <<"I", "I", "I">>, <<"A", "A", "A", "B">>,
      <<"S", "M", "I", "I", "I", "T", "H">> }

OpenChips(name_item) ==
    { i \in 1..Len(potential_chips) :
        /\ i \notin used_chips
        /\ abs(potential_chips[i].x - name_item.x) <= 100
        /\ abs(potential_chips[i].y - name_item.y) <= 80 }

WeightedDistance(name_item, i) ==
    abs(potential_chips[i].x - name_item.x)
    + 2 * abs(potential_chips[i].y - name_item.y)

\* the minimum-score chip of S, the earliest in token order on a tie
MinScoreChip(name_item, S) ==
    CHOOSE i \in S :
        \A j \in S :
            \/ WeightedDistance(name_item, i) < WeightedDistance(name_item, j)
            \/ /\ WeightedDistance(name_item, i) = WeightedDistance(name_item, j)
               /\ i <= j

IsPrefix(a, b) == Len(a) <= Len(b) /\ a = SubSeq(b, 1, Len(a))

\* C10: names are taken in ascending x; the name being processed gets its
\* minimum-score chip among the in-threshold chips still unused, so of two
\* names after the same chip the one taken first has it; a name with no
\* such chip gets no pair; pairs already made are never changed.
C10_GreedyFirstCome ==
    [][ (pc = "match" /\ k <= Len(potential_names)) =>
          LET name_item == potential_names[k]
              open      == OpenChips(name_item)
          IN  /\ \A i \in 1..(Len(potential_names) - 1) :
                     potential_names[i].x <= potential_names[i + 1].x
              /\ IsPrefix(players, players')
              /\ IsPrefix(matched, matched')
              /\ IF open = { } THEN matched' = matched
                 ELSE matched' =
                          Append(matched,
                                 [ name_idx |-> k,
                                   chip_idx |->
                                       MinScoreChip(name_item, open) ])
      ]_vars

\* C11: every pair joins a name and a chip at most 100 px apart
\* horizontally and at most 80 px apart vertically, both bounds included:
\* NEGREANU at (50, 10) and "1,200,000" at (55, 90) give the one pair
\* NEGREANU / 1200000 with confidence 0.875.
C11_InclusiveThresholds ==
    pc \in { "match", "return" } =>
        /\ \A i \in 1..Len(matched) :
               LET n == potential_names[matched[i].name_idx]
                   c == potential_chips[matched[i].chip_idx]
               IN  /\ abs(c.x - n.x) <= 100
                   /\ abs(c.y - n.y) <= 80
        /\ (pc = "return" /\ raw_text = ExampleFrame) =>
               result = << [ name |-> NEGREANU, chips |-> 1200000,
                             confidence |-> 875 ] >>

\* the scenario has been through extract_players and gave its pair
C11_Witness ==
    /\ pc = "return"
    /\ raw_text = ExampleFrame
    /\ Len(result) = 1
    /\ abs(potential_chips[1].y - potential_names[1].y) = 80

\* C12: a name that gets a pair gets it with the minimum-score chip among
\* the unused chips within both thresholds, the earliest in token order
\* when scores tie; a name with no such chip gets no pair.
C12_MinScoreSelection ==
    [][ (pc = "match" /\ k <= Len(potential_names)) =>
          LET name_item == potential_names[k]
              open      == OpenChips(name_item)
          IN  /\ open = { } => matched' = matched
              /\ matched' # matched =>
                     matched' =
                         Append(matched,
                                [ name_idx |-> k,
                                  chip_idx |->
                                      MinScoreChip(name_item, open) ])
      ]_vars

\* the first name was paired while a second chip, farther by score or
\* later on a tie, was also open to it
C12_Witness ==
    /\ pc = "match"
    /\ Len(matched) = 1
    /\ \E j \in 1..Len(potential_chips) :
          LET n == potential_names[matched[1].name_idx]
              c == matched[1].chip_idx
          IN  /\ j # c
              /\ abs(potential_chips[j].x - n.x) <= 100
              /\ abs(potential_chips[j].y - n.y) <= 80
              /\ WeightedDistance(n, j) >= WeightedDistance(n, c)

\* C13: each pair carries the text of its name token, the normalized
\* value of its chip token, and the mean of the two confidences.
C13_FusedConfidence ==
    pc \in { "match", "return" } =>
        \A i \in 1..Len(matched) :
            LET n == potential_names[matched[i].name_idx]
                c == potential_chips[matched[i].chip_idx]
            IN  /\ players[i].name = n.text
                /\ players[i].chips = c.chips
                /\ 2 * players[i].confidence = n.confidence + c.confidence

\* confidences 0.9 and 0.85 were fused into 0.875
C13_Witness ==
    /\ pc = "return"
    /\ \E i \in 1..Len(matched) :
          /\ potential_names[matched[i].name_idx].confidence = 900
          /\ potential_chips[matched[i].chip_idx].confidence = 850
          /\ result # << >>
          /\ result[i].confidence = 875

\* the records with players, and how often a total occurs among them
NonEmptyRecords == { i \in 1..Len(out) : out[i].players # << >> }

TotalCount(v) ==
    Cardinality({ i \in NonEmptyRecords : out[i].total_chips = v })

FirstSeen(v) ==
    CHOOSE i \in NonEmptyRecords :
        /\ out[i].total_chips = v
        /\ \A j \in NonEmptyRecords : out[j].total_chips = v => i <= j

\* the most frequent total, the first seen on a tie
ModeOfTotals ==
    LET best == CHOOSE i \in NonEmptyRecords :
                    \A j \in NonEmptyRecords :
                        LET vi == out[i].total_chips
                            vj == out[j].total_chips
                        IN  \/ TotalCount(vi) > TotalCount(vj)
                            \/ /\ TotalCount(vi) = TotalCount(vj)
                               /\ FirstSeen(vi) <= FirstSeen(vj)
    IN  out[best].total_chips

AtEndOfFile == pc = "read" /\ line_no = Len(input_lines)

\* C14: once a batch with at least one non-empty frame is processed,
\* every record has expected_total equal to the most frequent total of
\* the non-empty frames and is_valid = (|total_chips - expected_total| <
\* 1,000,000).
C14_ConsistencyCheck ==
    (AtEndOfFile /\ NonEmptyRecords # { }) =>
        \A i \in 1..Len(out) :
            /\ out[i].expected_total # None
            /\ out[i].is_valid # None
            /\ out[i].expected_total = ModeOfTotals
            /\ out[i].is_valid =
                   (abs(out[i].total_chips - ModeOfTotals) < 1000000)

ValidJsonLines(n) == { i \in 1..n : input_lines[i].valid_json }

CurrentLine == input_lines[line_no]

EmptyRecordFor(path) ==
    [ filepath |-> path, players |-> << >>, total_chips |-> 0,
      expected_total |-> None, is_valid |-> None ]

\* C15: the rule-based program has written one record per line that
\* parsed as JSON, and a frame whose handling raised has the record with
\* its filepath, no players and total 0.
C15_ExceptionGivesEmptyRecord ==
    (extractor = "rule" /\ pc = "read") =>
        /\ Len(out) = Cardinality(ValidJsonLines(line_no))
        /\ (/\ line_no >= 1
            /\ CurrentLine.valid_json
            /\ extract_players_raises(raw_text))
               => out[Len(out)] = EmptyRecordFor(filepath)

\* a decoded line that must give an empty frame: "success" false, or
\* raw_text absent, null or empty
IsEmptyInput(data) ==
    \/ get(data, "success", TRUE) = FALSE
    \/ get(data, "raw_text", << >>) \in { << >>, NullList }

\* C16: when the rule-based program is done with such a line, the last
\* record written is the one for its filepath, with no players and total
\* 0.
C16_EmptyInputGivesEmptyFrame ==
    (/\ extractor = "rule"
     /\ pc = "read"
     /\ line_no >= 1
     /\ CurrentLine.valid_json
     /\ IsEmptyInput(CurrentLine.data))
        => /\ out # << >>
           /\ out[Len(out)] =
                  EmptyRecordFor(get(CurrentLine.data, "filepath", ""))

\* the filepaths of the lines among the first n that parsed as JSON
RECURSIVE FilepathsOfJsonLines(_)
FilepathsOfJsonLines(n) ==
    IF n = 0 THEN << >>
    ELSE IF input_lines[n].valid_json
    THEN Append(FilepathsOfJsonLines(n - 1),
                get(input_lines[n].data, "filepath", ""))
    ELSE FilepathsOfJsonLines(n - 1)

\* C17: whenever the loop is between two lines, the records written are,
\* in order, those of the lines read so far that parsed as JSON: a
\* malformed line added none and cost no other line its record.
C17_MalformedLineNotFatal ==
    pc = "read" =>
        [ i \in 1..Len(out) |-> out[i].filepath ]
            = FilepathsOfJsonLines(line_no)

\* a collaborator answer that makes the try block raise
IsFailedCall(response) ==
    \/ response.kind = "error"
    \/ /\ response.kind = "array"
       /\ \E i \in 1..Len(response.array) :
              \/ response.array[i].kind # "object"
              \/ response.array[i].chips_kind = "string"

\* C18: in the LLM programs a call that fails for a frame appends the
\* record with the frame's filepath, no players, total 0 and null
\* expected_total and is_valid, and the loop goes on to the next line.
C18_FailedCallGivesEmptyRecord ==
    [][ (pc = "call" /\ ~ llm_handler_raises(raw_text)) =>
          /\ pc' = "read"
          /\ Len(out') = Len(out) + 1
          /\ IsFailedCall(last_response') =>
                 out' = Append(out, EmptyRecordFor(filepath))
      ]_vars

\* a failed call left the empty record of a.png as the last record
C18_Witness ==
    /\ extractor # "rule"
    /\ pc = "read"
    /\ last_response.kind = "array"
    /\ IsFailedCall(last_response)
    /\ out # << >>
    /\ out[Len(out)] = EmptyRecordFor("a.png")

\* C19: the record the rule-based program writes for a line is a
\* function of that line alone, so the same lines give the same records
\* and no frame depends on the frames before it.
C19_FramesIndependent ==
    [][ pc = "return" =>
          out' = Append(out,
                        [ filepath |-> filepath,
                          players |-> extract_players(raw_text),
                          total_chips |->
                              ChipsFrom(extract_players(raw_text), 1),
                          expected_total |-> None,
                          is_valid |-> None ])
      ]_vars

\* the same line was processed first and third, around a different one,
\* and gave the same non-empty record
C19_Witness ==
    /\ extractor = "rule"
    /\ Len(out) = 3
    /\ line_no = 3
    /\ input_lines[1] = input_lines[3]
    /\ out[1] = out[3]
    /\ out[1].players # << >>
    /\ out[2].players # << >>
    /\ out[2] # out[1]

\* C20: when every chip candidate was consumed the pairs are returned,
\* one per chip candidate, whatever the number of names left without a
\* chip; a chip candidate left over empties the result.
C20_UnmatchedNameIsDropped ==
    pc = "return" =>
        IF Cardinality(used_chips) = Len(potential_chips)
        THEN /\ result = players
             /\ Len(result) = Len(potential_chips)
        ELSE result = << >>

\* two names, one chip candidate, one player returned
C20_Witness ==
    /\ pc = "return"
    /\ Len(potential_names) = 2
    /\ Len(potential_chips) = 1
    /\ Len(result) = 1
    /\ result[1].name = potential_names[1].text

\* the filepaths of the lines among the first n that the rule-based
\* program processed without error: decoded, and extract_players returned
RECURSIVE FilepathsOfProcessedLines(_)
FilepathsOfProcessedLines(n) ==
    IF n = 0 THEN << >>
    ELSE IF /\ input_lines[n].valid_json
            /\ ~ extract_players_raises(
                     get(input_lines[n].data, "raw_text", << >>))
    THEN Append(FilepathsOfProcessedLines(n - 1),
                get(input_lines[n].data, "filepath", ""))
    ELSE FilepathsOfProcessedLines(n - 1)

\* C21: the rule-based program writes its records in input order, one
\* per line processed without error, the k-th record with the filepath
\* of the k-th such line ("" when the line has none); and the players of
\* a frame are in ascending x order of their name tokens.
C21_RecordsInInputOrder ==
    /\ (extractor = "rule" /\ pc = "read") =>
           [ i \in 1..Len(out) |-> out[i].filepath ]
               = FilepathsOfProcessedLines(line_no)
    /\ pc \in { "match", "return" } =>
           /\ Len(players) = Len(matched)
           /\ \A i \in 1..Len(matched) :
                  players[i].name = potential_names[matched[i].name_idx].text
           /\ \A i, j \in 1..Len(matched) :
                  i < j => potential_names[matched[i].name_idx].x
                               <= potential_names[matched[j].name_idx].x
    /\ pc = "return" => result \in { players, << >> }

\* a line without filepath, a malformed line and a frame with two
\* players whose tokens list the right-hand name first: two records, the
\* second with the left-hand name first
C21_Witness ==
    /\ extractor = "rule"
    /\ pc = "read"
    /\ line_no = 3
    /\ ~ input_lines[2].valid_json
    /\ Len(out) = 2
    /\ out[1].filepath = ""
    /\ out[1].players # << >>
    /\ out[2].filepath = "b.png"
    /\ Len(out[2].players) = 2
    /\ out[2].players[1].name = NEGREANU
    /\ out[2].players[2].name = IVEY

=============================================================================
